---- MODULE Spec2Model ----
(***************************************************************************)
(* A model of the metrics-correlation engine of bettervllmlog:             *)
(*   - delta_last_sample,                                                  *)
(*     measure_prefill_for_prompt           (benchmark.py)                 *)
(*   - match_stats_with_requests,                                          *)
(*     parse_task_log                       (combine_logs_improved.py)     *)
(*   - match_requests_to_stats,                                            *)
(*     extract_cache_hit_rates_per_request  (analyze_vllm_browser_use.py)  *)
(*   - BrowserUseTaskHandler: the background metrics poller, the           *)
(*     fetch_metrics_summary cache, emit and close                         *)
(*                            (browser_use_task_handler_exact_timing.py)   *)
(*                                                                         *)
(* Python's None is the empty tuple <<>>, a present value v is <<v>>, so   *)
(* that "absent" never compares equal to a number.                         *)
(***************************************************************************)
EXTENDS Integers, Sequences, FiniteSets, TLC

None == <<>>
Some(v) == <<v>>
Val(o) == o[1]

Abs(x) == IF x < 0 THEN -x ELSE x

SeqsUpTo(S, n) == UNION {[1..k -> S] : k \in 0..n}

\* the empty dict
NoPending == [r \in {} |-> None]

(***************************************************************************)
(* Bounds of the model.                                                    *)
(***************************************************************************)
\* counts range over 0..MaxCount whole observations (plus one grid step)
MaxCount == 2
\* sums range over 0..MaxSum
MaxSum == 2
\* stat records given to a matcher
MaxStats == 2
\* request intervals given to a matcher
MaxRequests == 2
\* timestamps of the matchers lie on a grid of MaxSlot + 1 points
MaxSlot == 3
\* the handler's clock advances at most MaxTicks times
MaxTicks == 2
\* the backend finishes at most MaxServer observations
MaxServer == 1
\* _fetch_metrics_impl is called at most MaxFetch times
MaxFetch == 2
\* request ids are 1..MaxIds
MaxIds == 1
\* at most MaxReceived "Received request" records are emitted
MaxReceived == 1
\* parse_task_log reads a task log of at most MaxLines lines
MaxLines == 4
\* the request ids in a task log are 1..MaxParseIds
MaxParseIds == 2
\* a request has at most MaxSamples gauge samples when they are reduced
MaxSamples == 5
\* when emit is taken as one step, request ids are 1..MaxTracked
MaxTracked == 2
\* and a session counts at most MaxSession requests
MaxSession == 2

VARIABLES
    \* ---- delta_last_sample (benchmark.py) ----
    d_pc,            \* "start" | "done"
    d_before,        \* the snapshot read before the request (parse_metrics)
    d_after,         \* the snapshot read after the request
    d_result,        \* what delta_last_sample returned
    \* ---- measure_prefill_for_prompt (benchmark.py) ----
    b_pc,            \* "start" | "done"
    b_m0,            \* read_metrics() before the request
    b_m1,            \* read_metrics() after the request
    b_result,        \* the dict measure_prefill_for_prompt returns
    \* ---- the timing that emit derives for a completed request ----
    t_pc,            \* "start" | "done"
    t_before,        \* req_data.get('metrics_before')
    t_after,         \* metrics_after
    t_timing,        \* None or the timings written to the task log
    \* ---- match_stats_with_requests (combine_logs_improved.py) ----
    m_pc,            \* "start" | "done"
    stats_entries,   \* the list of stat records
    requests,        \* the dict of parse_task_log, in insertion order
    matched_data,    \* the list match_stats_with_requests returns
    \* ---- match_requests_to_stats (analyze_vllm_browser_use.py) ----
    rs_pc,           \* "start" | "done"
    rs_requests,     \* the list request_data
    rs_stats,        \* the list stats_data
    rs_matched,      \* the list match_requests_to_stats returns
    \* ---- parse_task_log (combine_logs_improved.py) ----
    p_pc,                \* "read" while parse_task_log reads the file
    p_lines,             \* lines read so far
    p_requests,          \* the dict "requests": request id -> record
    current_request_id,  \* None or the id of the last "Request #" line
    kv_cache_samples,    \* the list of all samples of the file
    \* ---- extract_cache_hit_rates_per_request (analyze_vllm_browser_use.py) ----
    x_pc,             \* "read" | "done"
    x_lines,          \* lines read so far
    x_added,          \* the server has added the requests 1..x_added
    x_open,           \* the requests the server has added and not finished
    request_data,     \* the list the function returns
    current_request,  \* None or [id, start_time]
    cache_samples,    \* the samples of current_request
    \* ---- the reduction of a request's samples to one value ----
    g_pc,             \* "start" | "done"
    g_samples,        \* the hit rates of the samples of one request
    g_median,         \* median_rate (analyze_vllm_browser_use.py)
    g_avg,            \* avg_hit_rate (combine_logs_improved.py)
    \* ---- BrowserUseTaskHandler (browser_use_task_handler_exact_timing.py) ----
    clock,                \* how often the clock has advanced
    server,               \* the backend's cumulative counter
    _metrics_cache,       \* None or the cached metrics dict
    _metrics_cache_time,  \* None or the time the cache was written
    _last_metrics_error,  \* None or the last exception
    _pending_requests,    \* request id -> [request_num, metrics_before]
    _request_count,
    _current_task_id,     \* None or the task's start time
    _last_request_time,   \* None or the time of the last record
    _stop_polling,        \* the threading.Event
    _lock,                \* "free" or the thread that holds self._lock
    poll_pc,              \* where the metrics-poller thread is
    poll_metrics,         \* the poller's local "metrics"
    poll_saw_pending,     \* what "if not self._pending_requests" last found
    ev_pc,                \* where the thread that runs emit is
    ev_msg,               \* the record emit is handling
    ret,                  \* what fetch_metrics_summary last returned
    ret_path,             \* by which return statement
    fetch_calls,          \* calls of _fetch_metrics_impl by PollFetch and SummaryFetch
    committed,            \* the last <<cache, time>> the poller has written in full
    pool_running,         \* fetches the pool still runs after their caller gave up
    pool_discarded,       \* how many of them have returned since
    handler_class,        \* which of the three handler classes the handler is
    timing_record         \* None or the last timing record written to the task file

delta_vars == <<d_pc, d_before, d_after, d_result>>
measure_vars == <<b_pc, b_m0, b_m1, b_result>>
timing_vars == <<t_pc, t_before, t_after, t_timing>>
match_vars == <<m_pc, stats_entries, requests, matched_data>>
reqmatch_vars == <<rs_pc, rs_requests, rs_stats, rs_matched>>
parse_vars == <<p_pc, p_lines, p_requests, current_request_id, kv_cache_samples>>
extract_vars == <<x_pc, x_lines, x_added, x_open, request_data, current_request,
                  cache_samples>>
reduce_vars == <<g_pc, g_samples, g_median, g_avg>>
\* the variables of the pure functions, which the handler leaves alone
pure_vars == <<delta_vars, measure_vars, timing_vars, match_vars, reqmatch_vars,
              parse_vars, extract_vars, reduce_vars>>
cache_vars == <<_metrics_cache, _metrics_cache_time, committed>>
task_vars == <<_pending_requests, _request_count, _current_task_id, _last_request_time>>
poll_vars == <<poll_pc, poll_metrics, poll_saw_pending>>
emit_vars == <<ev_pc, ev_msg, ret, ret_path>>
pool_vars == <<pool_running, pool_discarded>>
log_vars == <<handler_class, timing_record>>
handler_vars == <<clock, server, cache_vars, _last_metrics_error, task_vars,
                  _stop_polling, _lock, poll_vars, emit_vars, fetch_calls, pool_vars,
                  log_vars>>

(***************************************************************************)
(* benchmark.py: delta_last_sample.                                        *)
(*                                                                         *)
(* Counts are floats in the code.  The model keeps them on a grid of       *)
(* 5e-7: CountUnit grid steps make a count of 1.0 and the code's 1e-6 is   *)
(* CountTolerance grid steps, so that a count delta can lie strictly       *)
(* inside the tolerance band without being 1.  A returned quotient is the  *)
(* pair [num, den], standing for num / (den / CountUnit); "ds returned     *)
(* directly" is [num |-> ds, den |-> CountUnit].                           *)
(***************************************************************************)
CountUnit == 2000000
CountTolerance == 2

CountValues == {k * CountUnit + e : k \in 0..MaxCount, e \in {0, 1}}
SumValues == 0..MaxSum

Opt(S) == {None} \cup {Some(v) : v \in S}

\* what parse_metrics returns for one metric: every key is there, None
\* when the text had no line for it
ParsedMetrics == [prefill_sum : Opt(SumValues), prefill_count : Opt(CountValues)]

\* dict.get(key)
Get(m, key) == IF key \in DOMAIN m THEN m[key] ELSE None

SameQuotient(a, b) == a.num * b.den = b.num * a.den

\* a plausible slip: the single-observation branch is missing
delta_always_average(before, after, key_sum, key_count) ==
    LET s0 == Get(before, key_sum)
        c0 == Get(before, key_count)
        s1 == Get(after, key_sum)
        c1 == Get(after, key_count)
    IN  IF None \in {s0, c0, s1, c1} THEN None
        ELSE LET dc == Val(c1) - Val(c0)
                 ds == Val(s1) - Val(s0)
             IN  IF dc > 0 THEN Some([num |-> ds, den |-> dc]) ELSE None

\* a plausible slip: the sum delta is returned whenever dc > 0
delta_never_average(before, after, key_sum, key_count) ==
    LET s0 == Get(before, key_sum)
        c0 == Get(before, key_count)
        s1 == Get(after, key_sum)
        c1 == Get(after, key_count)
    IN  IF None \in {s0, c0, s1, c1} THEN None
        ELSE LET dc == Val(c1) - Val(c0)
                 ds == Val(s1) - Val(s0)
             IN  IF dc > 0 THEN Some([num |-> ds, den |-> CountUnit]) ELSE None

\* a plausible slip: "dc != 0" for "dc > 0"
delta_nonzero_count(before, after, key_sum, key_count) ==
    LET s0 == Get(before, key_sum)
        c0 == Get(before, key_count)
        s1 == Get(after, key_sum)
        c1 == Get(after, key_count)
    IN  IF None \in {s0, c0, s1, c1} THEN None
        ELSE LET dc == Val(c1) - Val(c0)
                 ds == Val(s1) - Val(s0)
             IN  IF Abs(dc - CountUnit) < CountTolerance /\ ds >= 0
                     THEN Some([num |-> ds, den |-> CountUnit])
                 ELSE IF dc # 0 THEN Some([num |-> ds, den |-> dc])
                 ELSE None

\* a plausible slip: a missing value is read as 0 (dict.get(key, 0))
delta_missing_as_zero(before, after, key_sum, key_count) ==
    LET z(o) == IF o = None THEN 0 ELSE Val(o)
        dc == z(Get(after, key_count)) - z(Get(before, key_count))
        ds == z(Get(after, key_sum)) - z(Get(before, key_sum))
    IN  IF Abs(dc - CountUnit) < CountTolerance /\ ds >= 0
            THEN Some([num |-> ds, den |-> CountUnit])
        ELSE IF dc > 0 THEN Some([num |-> ds, den |-> dc])
        ELSE None

delta_last_sample(before, after, key_sum, key_count) ==
    LET s0 == Get(before, key_sum)
        c0 == Get(before, key_count)
        s1 == Get(after, key_sum)
        c1 == Get(after, key_count)
    IN  IF None \in {s0, c0, s1, c1} THEN None
        ELSE LET dc == Val(c1) - Val(c0)
                 ds == Val(s1) - Val(s0)
             IN  IF Abs(dc - CountUnit) < CountTolerance /\ ds >= 0
                     THEN Some([num |-> ds, den |-> CountUnit])
                 ELSE IF dc > 0 THEN Some([num |-> ds, den |-> dc])
                 ELSE None

DeltaInit ==
    /\ d_pc = "start"
    /\ d_before \in ParsedMetrics
    /\ d_after \in ParsedMetrics
    /\ d_result = None

DeltaLastSample ==
    /\ UNCHANGED <<measure_vars, timing_vars,
                   match_vars, reqmatch_vars, parse_vars, extract_vars, reduce_vars, handler_vars>>
    /\ d_pc = "start"
    /\ d_result' = delta_last_sample(d_before, d_after, "prefill_sum", "prefill_count")
    /\ d_pc' = "done"
    /\ UNCHANGED <<d_before, d_after>>

(***************************************************************************)
(* benchmark.py: measure_prefill_for_prompt.                               *)
(*                                                                         *)
(* m0 and m1 are the dicts of parse_metrics, with all eight keys.  Before  *)
(* the request a counter is 0 or has no line in the text; after it a sum   *)
(* is MaxSum and a count is 0 or 1, or the line is missing.                *)
(***************************************************************************)
Metrics == {"prefill", "decode", "time_per_output_token", "time_to_first_token"}

KeySum(metric) ==
    CASE metric = "prefill" -> "prefill_sum"
      [] metric = "decode" -> "decode_sum"
      [] metric = "time_per_output_token" -> "time_per_output_token_sum"
      [] metric = "time_to_first_token" -> "time_to_first_token_sum"

KeyCount(metric) ==
    CASE metric = "prefill" -> "prefill_count"
      [] metric = "decode" -> "decode_count"
      [] metric = "time_per_output_token" -> "time_per_output_token_count"
      [] metric = "time_to_first_token" -> "time_to_first_token_count"

\* the dict m of parse_metrics, given the sum and the count of each metric
ParsedDict(counters) ==
    [key \in {KeySum(metric) : metric \in Metrics} \cup {KeyCount(metric) : metric \in Metrics} |->
        LET metric == CHOOSE x \in Metrics : key \in {KeySum(x), KeyCount(x)}
        IN  IF key = KeySum(metric) THEN counters[metric].sum ELSE counters[metric].count]

SnapshotsBefore ==
    {ParsedDict(counters) : counters \in [Metrics -> [sum : Opt({0}), count : Opt({0})]]}

SnapshotsAfter ==
    {ParsedDict(counters) :
        counters \in [Metrics -> [sum : Opt({MaxSum}), count : Opt({0, CountUnit})]]}

Zero == [num |-> 0, den |-> CountUnit]

\* "x if x is not None else 0.0"
OrZero(x) == IF x # None THEN Val(x) ELSE Zero

\* a plausible slip: the record is given up when prefill or decode is None
measure_all_or_nothing(m0, m1) ==
    LET delta(metric) == delta_last_sample(m0, m1, KeySum(metric), KeyCount(metric))
    IN  IF delta("prefill") = None \/ delta("decode") = None
        THEN [metric \in Metrics |-> Zero]
        ELSE [metric \in Metrics |-> OrZero(delta(metric))]

\* the four calls of delta_last_sample and the dict that is returned
measure_prefill_for_prompt(m0, m1) ==
    [metric \in Metrics |->
        OrZero(delta_last_sample(m0, m1, KeySum(metric), KeyCount(metric)))]

MeasureInit ==
    /\ b_pc = "start"
    /\ b_m0 \in SnapshotsBefore
    /\ b_m1 \in SnapshotsAfter
    /\ b_result = None

MeasurePrefillForPrompt ==
    /\ UNCHANGED <<delta_vars, timing_vars, match_vars, reqmatch_vars, parse_vars,
                   extract_vars, reduce_vars, handler_vars>>
    /\ b_pc = "start"
    /\ b_result' = Some(measure_prefill_for_prompt(b_m0, b_m1))
    /\ b_pc' = "done"
    /\ UNCHANGED <<b_m0, b_m1>>

(***************************************************************************)
(* browser_use_task_handler_exact_timing.py: the timing that emit writes   *)
(* for a completed request ("Calculate EXACT prefill and decode from       *)
(* Prometheus delta"), as a function of the two snapshots.                 *)
(*                                                                         *)
(* A snapshot is None (fetch_metrics_summary returned None) or the dict of *)
(* _fetch_metrics_impl, which has a metric's sum only when the backend's   *)
(* text has the metric.  A written timing is Some(number).                 *)
(***************************************************************************)
TimedMetrics == {"prefill", "decode", "ttft"}

SumKey(metric) ==
    CASE metric = "prefill" -> "prefill_sum"
      [] metric = "decode" -> "decode_sum"
      [] metric = "ttft" -> "ttft_sum"

MetricsDicts == UNION {[keys -> SumValues] : keys \in SUBSET {SumKey(metric) : metric \in TimedMetrics}}

\* dict.get(key, default)
GetOr(m, key, default) == IF key \in DOMAIN m THEN m[key] ELSE default

\* the truth value of a snapshot: None and the empty dict are false
Truthy(metrics) == metrics # None /\ DOMAIN Val(metrics) # {}

\* "if metrics_before and metrics_after: prefill_delta = ... " and the
\* three lines written from the deltas
emit_timing(metrics_before, metrics_after) ==
    IF Truthy(metrics_before) /\ Truthy(metrics_after)
    THEN Some([metric \in TimedMetrics |->
                 Some(GetOr(Val(metrics_after), SumKey(metric), 0)
                      - GetOr(Val(metrics_before), SumKey(metric), 0))])
    ELSE None

TimingInit ==
    /\ t_pc = "start"
    /\ t_before \in Opt(MetricsDicts)
    /\ t_after \in Opt(MetricsDicts)
    /\ t_timing = None

EmitTiming ==
    /\ UNCHANGED <<delta_vars, measure_vars, match_vars, reqmatch_vars, parse_vars,
                   extract_vars, reduce_vars, handler_vars>>
    /\ t_pc = "start"
    /\ t_timing' = emit_timing(t_before, t_after)
    /\ t_pc' = "done"
    /\ UNCHANGED <<t_before, t_after>>

(***************************************************************************)
(* combine_logs_improved.py: match_stats_with_requests.                    *)
(*                                                                         *)
(* requests is the dict of parse_task_log in insertion order; a request's  *)
(* id is its position.  completed_time None stands for a completed_time    *)
(* that is falsy or that datetime.fromisoformat rejects: both skip the     *)
(* request.  Timestamps are whole seconds on the grid 0, 2, 4, ...         *)
(***************************************************************************)
MatchToleranceSeconds == 5

MatchTimes == {2 * k : k \in 0..MaxSlot}

StatRecords == [timestamp : MatchTimes]

\* the records parse_task_log can produce: completed_time is set only by a
\* "Generated response" line, a later "Aborted" line keeps it
RequestRecords ==
    [status : {"pending"}, completed_time : {None}]
    \cup [status : {"completed", "aborted"}, completed_time : Opt(MatchTimes)]

\* a plausible slip: the first request within the tolerance is taken
RECURSIVE FindFirstMatch(_, _, _, _)
FindFirstMatch(stats_time, reqs, i, acc) ==
    IF i > Len(reqs) THEN acc
    ELSE LET req_data == reqs[i]
             time_diff == Abs(stats_time - Val(req_data.completed_time))
         IN  IF req_data.status # "completed" THEN FindFirstMatch(stats_time, reqs, i + 1, acc)
             ELSE IF req_data.completed_time = None THEN FindFirstMatch(stats_time, reqs, i + 1, acc)
             ELSE IF time_diff <= MatchToleranceSeconds /\ acc.min_time_diff = None
                 THEN FindFirstMatch(stats_time, reqs, i + 1,
                                     [best_match |-> Some(i), min_time_diff |-> Some(time_diff)])
             ELSE FindFirstMatch(stats_time, reqs, i + 1, acc)

\* a plausible slip: the test of the status is missing
RECURSIVE FindBestMatchAnyStatus(_, _, _, _)
FindBestMatchAnyStatus(stats_time, reqs, i, acc) ==
    IF i > Len(reqs) THEN acc
    ELSE LET req_data == reqs[i]
             time_diff == Abs(stats_time - Val(req_data.completed_time))
         IN  IF req_data.completed_time = None
                 THEN FindBestMatchAnyStatus(stats_time, reqs, i + 1, acc)
             ELSE IF /\ time_diff <= MatchToleranceSeconds
                     /\ (acc.min_time_diff = None \/ time_diff < Val(acc.min_time_diff))
                 THEN FindBestMatchAnyStatus(stats_time, reqs, i + 1,
                                    [best_match |-> Some(i), min_time_diff |-> Some(time_diff)])
             ELSE FindBestMatchAnyStatus(stats_time, reqs, i + 1, acc)

\* one pass of "for req_id, req_data in requests.items()" from position i on;
\* acc is [best_match, min_time_diff]
RECURSIVE FindBestMatch(_, _, _, _)
FindBestMatch(stats_time, reqs, i, acc) ==
    IF i > Len(reqs) THEN acc
    ELSE LET req_data == reqs[i]
             time_diff == Abs(stats_time - Val(req_data.completed_time))
         IN  IF req_data.status # "completed" THEN FindBestMatch(stats_time, reqs, i + 1, acc)
             ELSE IF req_data.completed_time = None THEN FindBestMatch(stats_time, reqs, i + 1, acc)
             ELSE IF /\ time_diff <= MatchToleranceSeconds
                     /\ (acc.min_time_diff = None \/ time_diff < Val(acc.min_time_diff))
                 THEN FindBestMatch(stats_time, reqs, i + 1,
                                    [best_match |-> Some(i), min_time_diff |-> Some(time_diff)])
             ELSE FindBestMatch(stats_time, reqs, i + 1, acc)

\* a plausible slip: min_time_diff starts as float('inf'), as it does in
\* match_requests_to_stats, and an unmatched entry carries it
MatchedEntryInfDiff(stats, reqs) ==
    LET acc == FindBestMatch(stats.timestamp, reqs, 1,
                             [best_match |-> None, min_time_diff |-> None])
    IN  [stats      |-> stats,
         request    |-> IF acc.best_match # None THEN Some(reqs[Val(acc.best_match)]) ELSE None,
         request_id |-> acc.best_match,
         time_diff  |-> IF acc.best_match # None THEN acc.min_time_diff
                                                 ELSE Some(1000000)]

\* the body of "for stats in stats_entries"
MatchedEntry(stats, reqs) ==
    LET acc == FindBestMatch(stats.timestamp, reqs, 1,
                             [best_match |-> None, min_time_diff |-> None])
    IN  [stats      |-> stats,
         request    |-> IF acc.best_match # None THEN Some(reqs[Val(acc.best_match)]) ELSE None,
         request_id |-> acc.best_match,
         time_diff  |-> acc.min_time_diff]

\* a plausible slip: only the entries that found a request are appended
match_stats_dropping_unmatched(stats, reqs) ==
    SelectSeq([k \in 1..Len(stats) |-> MatchedEntry(stats[k], reqs)],
              LAMBDA entry : entry.request_id # None)

match_stats_with_requests(stats, reqs) ==
    [k \in 1..Len(stats) |-> MatchedEntry(stats[k], reqs)]

StatMatchInit ==
    /\ m_pc = "start"
    /\ stats_entries \in SeqsUpTo(StatRecords, MaxStats)
    /\ requests \in SeqsUpTo(RequestRecords, MaxRequests)
    /\ matched_data = <<>>

MatchStatsWithRequests ==
    /\ UNCHANGED <<measure_vars, timing_vars,
                   delta_vars, reqmatch_vars, parse_vars, extract_vars, reduce_vars, handler_vars>>
    /\ m_pc = "start"
    /\ matched_data' = match_stats_with_requests(stats_entries, requests)
    /\ m_pc' = "done"
    /\ UNCHANGED <<stats_entries, requests>>

(***************************************************************************)
(* analyze_vllm_browser_use.py: match_requests_to_stats.                   *)
(*                                                                         *)
(* request_data is the list of extract_cache_hit_rates_per_request: a      *)
(* request runs from its "Added request" line (start_time) to its last     *)
(* sample (end_time), and its id is its position in the list.  stats_data  *)
(* is the list of extract_request_stats.  Timestamps are whole seconds on  *)
(* the grid 100, 115, 130, ...                                             *)
(***************************************************************************)
TimeWindowSeconds == 30

WindowTimes == {100 + 15 * k : k \in 0..MaxSlot}

RequestData == {req \in [start_time : WindowTimes, end_time : WindowTimes] :
                   req.start_time <= req.end_time}

StatsData == [timestamp : WindowTimes]

\* one pass of "for stat in stats_data" from position i on; acc is
\* [best_match, min_time_diff], min_time_diff None standing for float('inf')
RECURSIVE FindBestStat(_, _, _, _)
FindBestStat(req, stats, i, acc) ==
    IF i > Len(stats) THEN acc
    ELSE LET stat_time == stats[i].timestamp
             time_diff == Abs(stat_time - req.end_time)
         IN  IF /\ req.start_time <= stat_time
                /\ stat_time <= req.end_time + TimeWindowSeconds
                /\ (acc.min_time_diff = None \/ time_diff < Val(acc.min_time_diff))
             THEN FindBestStat(req, stats, i + 1,
                               [best_match |-> Some(i), min_time_diff |-> Some(time_diff)])
             ELSE FindBestStat(req, stats, i + 1, acc)

\* the body of "for req in request_data": what it appends to matched_data
RequestEntry(k, req, stats) ==
    LET acc == FindBestStat(req, stats, 1, [best_match |-> None, min_time_diff |-> None])
    IN  IF acc.best_match # None
        THEN <<[request_id           |-> k,
                request_start        |-> req.start_time,
                request_end          |-> req.end_time,
                completion_timestamp |-> stats[Val(acc.best_match)].timestamp,
                time_diff_seconds    |-> Val(acc.min_time_diff)]>>
        ELSE <<>>

\* "for req in request_data" from position k on
RECURSIVE MatchRequestsFrom(_, _, _)
MatchRequestsFrom(reqs, stats, k) ==
    IF k > Len(reqs) THEN <<>>
    ELSE RequestEntry(k, reqs[k], stats) \o MatchRequestsFrom(reqs, stats, k + 1)

match_requests_to_stats(reqs, stats) == MatchRequestsFrom(reqs, stats, 1)

ReqMatchInit ==
    /\ rs_pc = "start"
    /\ rs_requests \in SeqsUpTo(RequestData, MaxRequests)
    /\ rs_stats \in SeqsUpTo(StatsData, MaxStats)
    /\ rs_matched = <<>>

MatchRequestsToStats ==
    /\ UNCHANGED <<measure_vars, timing_vars,
                   delta_vars, match_vars, parse_vars, extract_vars, reduce_vars, handler_vars>>
    /\ rs_pc = "start"
    /\ rs_matched' = match_requests_to_stats(rs_requests, rs_stats)
    /\ rs_pc' = "done"
    /\ UNCHANGED <<rs_requests, rs_stats>>

(***************************************************************************)
(* combine_logs_improved.py: parse_task_log.                               *)
(*                                                                         *)
(* One step reads one line of the task log.  A line is one of those the    *)
(* function's regular expressions tell apart; the timestamp of a line is   *)
(* its position in the file.                                               *)
(***************************************************************************)
ParseIds == 1..MaxParseIds

\* the N of "Request #N"
RequestNums == 1..MaxParseIds

\* "Prefix cache hit rate: x%"
HitRates == {25, 75}

TaskLogLines ==
    \* "Request #N (Step M): chatcmpl-x"
    [kind : {"request"}, request_num : RequestNums, request_id : ParseIds]
    \* "Time: 2025-11-08T16:00:55.904560"
    \cup [kind : {"time"}]
    \* "... Generated response chatcmpl-x", with or without a timestamp at
    \* the start of the line
    \cup [kind : {"generated"}, request_id : ParseIds, stamped : BOOLEAN]
    \* "Aborted request(s) chatcmpl-x"
    \cup [kind : {"aborted"}, request_id : ParseIds]
    \* "<timestamp> ... GPU KV cache usage: u%, Prefix cache hit rate: x%"
    \cup [kind : {"kv"}, hit_rate : HitRates]
    \* any other line
    \cup [kind : {"other"}]

\* requests[id][field] = value
SetField(reqs, id, field, value) ==
    [reqs EXCEPT ![id] = [@ EXCEPT ![field] = value]]

\* requests[request_id] = {...}
NewRequest(reqs, id, num) ==
    [r \in DOMAIN reqs \cup {id} |->
        IF r = id THEN [request_num      |-> num,
                        received_time    |-> None,
                        completed_time   |-> None,
                        status           |-> "pending",
                        kv_cache_samples |-> <<>>]
                  ELSE reqs[r]]

\* "Associate with current request if active"
associate_with_current(reqs, cur, kv_sample) ==
    IF cur # None /\ Val(cur) \in DOMAIN reqs
    THEN IF reqs[Val(cur)].status = "pending"
         THEN SetField(reqs, Val(cur), "kv_cache_samples",
                       Append(reqs[Val(cur)].kv_cache_samples, kv_sample))
         ELSE reqs
    ELSE reqs

ParseInit ==
    /\ p_pc = "read"
    /\ p_lines = 0
    /\ p_requests = NoPending
    /\ current_request_id = None
    /\ kv_cache_samples = <<>>

\* the body of "for line in f"
ParseTaskLogLine(line) ==
    LET t == p_lines + 1
    IN  /\ UNCHANGED <<measure_vars, timing_vars,
                       delta_vars, match_vars, reqmatch_vars, extract_vars, reduce_vars, handler_vars>>
        /\ p_pc = "read"
        /\ p_lines < MaxLines
        /\ p_lines' = t
        /\ UNCHANGED p_pc
        /\ CASE line.kind = "request" ->
                  /\ current_request_id' = Some(line.request_id)
                  /\ p_requests' = NewRequest(p_requests, line.request_id, line.request_num)
                  /\ UNCHANGED kv_cache_samples
             [] line.kind = "time" ->
                  /\ p_requests' =
                        IF /\ current_request_id # None
                           /\ p_requests[Val(current_request_id)].received_time = None
                        THEN SetField(p_requests, Val(current_request_id),
                                      "received_time", Some(t))
                        ELSE p_requests
                  /\ UNCHANGED <<current_request_id, kv_cache_samples>>
             [] line.kind = "generated" ->
                  /\ p_requests' =
                        IF line.request_id \in DOMAIN p_requests
                        THEN LET done == SetField(p_requests, line.request_id,
                                                  "status", "completed")
                             IN  IF line.stamped
                                 THEN SetField(done, line.request_id,
                                               "completed_time", Some(t))
                                 ELSE done
                        ELSE p_requests
                  /\ UNCHANGED <<current_request_id, kv_cache_samples>>
             [] line.kind = "aborted" ->
                  /\ p_requests' =
                        IF line.request_id \in DOMAIN p_requests
                        THEN SetField(p_requests, line.request_id, "status", "aborted")
                        ELSE p_requests
                  /\ UNCHANGED <<current_request_id, kv_cache_samples>>
             [] line.kind = "kv" ->
                  LET kv_sample == [timestamp |-> t,
                                    prefix_cache_hit_rate |-> line.hit_rate]
                  IN  /\ kv_cache_samples' = Append(kv_cache_samples, kv_sample)
                      /\ p_requests' = associate_with_current(p_requests,
                                            current_request_id, kv_sample)
                      /\ UNCHANGED current_request_id
             [] OTHER ->
                  UNCHANGED <<p_requests, current_request_id, kv_cache_samples>>

(***************************************************************************)
(* The reduction of the samples of one request to one hit rate:            *)
(* np.median in analyze_vllm_browser_use.py, sum / len in                  *)
(* write_combined_log of combine_logs_improved.py.  A value is the         *)
(* quotient [num, den].                                                    *)
(***************************************************************************)
GaugeValues == {10, 15, 20, 30, 100}

RECURSIVE Sum(_)
Sum(values) == IF values = <<>> THEN 0 ELSE Head(values) + Sum(Tail(values))

\* the k-th element of sorted(values)
KthSmallest(values, k) ==
    CHOOSE v \in {values[i] : i \in DOMAIN values} :
        /\ Cardinality({i \in DOMAIN values : values[i] < v}) < k
        /\ k <= Cardinality({i \in DOMAIN values : values[i] <= v})

\* np.median(values): the middle element of the sorted values, the mean of
\* the two middle elements when their number is even
median(values) ==
    LET n == Len(values)
    IN  IF n % 2 = 1
        THEN [num |-> KthSmallest(values, (n + 1) \div 2), den |-> 1]
        ELSE [num |-> KthSmallest(values, n \div 2) + KthSmallest(values, n \div 2 + 1),
              den |-> 2]

\* sum(s['prefix_cache_hit_rate'] for s in samples) / len(samples)
avg_hit_rate(values) == [num |-> Sum(values), den |-> Len(values)]

\* a request that has samples: both programs reduce only a non-empty list
ReduceInit ==
    /\ g_pc = "start"
    /\ g_samples \in SeqsUpTo(GaugeValues, MaxSamples) \ {<<>>}
    /\ g_median = None
    /\ g_avg = None

\* "median_rate = np.median([s['rate'] for s in cache_samples])"
ReduceMedian ==
    /\ UNCHANGED <<measure_vars, timing_vars,
                   delta_vars, match_vars, reqmatch_vars, parse_vars, extract_vars, handler_vars>>
    /\ g_pc = "start"
    /\ g_median = None
    /\ g_median' = Some(median(g_samples))
    /\ g_pc' = IF g_avg # None THEN "done" ELSE "start"
    /\ UNCHANGED <<g_samples, g_avg>>

\* "avg_hit_rate = sum(...) / len(req_data['kv_cache_samples'])"
ReduceAverage ==
    /\ UNCHANGED <<measure_vars, timing_vars,
                   delta_vars, match_vars, reqmatch_vars, parse_vars, extract_vars, handler_vars>>
    /\ g_pc = "start"
    /\ g_avg = None
    /\ g_avg' = Some(avg_hit_rate(g_samples))
    /\ g_pc' = IF g_median # None THEN "done" ELSE "start"
    /\ UNCHANGED <<g_samples, g_median>>

(***************************************************************************)
(* analyze_vllm_browser_use.py: extract_cache_hit_rates_per_request.       *)
(*                                                                         *)
(* One step reads one line of the task log, which the server writes: it    *)
(* adds the requests 1, 2, ... in turn, finishes a request it has added,   *)
(* and logs its gauges together with the number of requests it is          *)
(* running.  The timestamp of a line is its position in the file.          *)
(***************************************************************************)
ServerLogLines ==
    \* "<timestamp> INFO vllm.v1.engine.async_llm - Added request <id>"
    [kind : {"added"}, request_id : ParseIds]
    \* "Generated response <id>": the function has no pattern for it
    \cup [kind : {"finished"}, request_id : ParseIds]
    \* "<timestamp> ... Running: n reqs ... Prefix cache hit rate: x%"
    \cup [kind : {"gauges"}, running : 0..MaxParseIds, hit_rate : HitRates]

\* the server can write the line next: it adds the next request, finishes
\* one it has added, or logs its gauges with the number of open requests
ServerWrites(line) ==
    CASE line.kind = "added" -> line.request_id = x_added + 1
      [] line.kind = "finished" -> line.request_id \in x_open
      [] line.kind = "gauges" -> line.running = Cardinality(x_open)

Rates(samples) == [i \in DOMAIN samples |-> samples[i].rate]

\* "if current_request and cache_samples: ... request_data.append({...})"
SaveRequest(data, current, samples) ==
    IF current # None /\ samples # <<>>
    THEN Append(data, [request_id            |-> Val(current).id,
                       start_time            |-> Val(current).start_time,
                       end_time              |-> samples[Len(samples)].timestamp,
                       median_cache_hit_rate |-> median(Rates(samples)),
                       num_samples           |-> Len(samples),
                       cache_samples         |-> samples])
    ELSE data

ExtractInit ==
    /\ x_pc = "read"
    /\ x_lines = 0
    /\ x_added = 0
    /\ x_open = {}
    /\ request_data = <<>>
    /\ current_request = None
    /\ cache_samples = <<>>

\* the body of "for line in f"
ExtractLine(line) ==
    LET timestamp == x_lines + 1
    IN  /\ UNCHANGED <<measure_vars, timing_vars,
                       delta_vars, match_vars, reqmatch_vars, parse_vars, reduce_vars, handler_vars>>
        /\ x_pc = "read"
        /\ x_lines < MaxLines
        /\ ServerWrites(line)
        /\ x_lines' = timestamp
        /\ UNCHANGED x_pc
        /\ CASE line.kind = "added" ->
                  /\ x_added' = line.request_id
                  /\ x_open' = x_open \cup {line.request_id}
                  /\ request_data' = SaveRequest(request_data, current_request, cache_samples)
                  /\ current_request' = Some([id |-> line.request_id,
                                              start_time |-> timestamp])
                  /\ cache_samples' = <<>>
             [] line.kind = "finished" ->
                  /\ x_open' = x_open \ {line.request_id}
                  /\ UNCHANGED <<x_added, request_data, current_request, cache_samples>>
             [] line.kind = "gauges" ->
                  /\ cache_samples' =
                        IF line.running = 1 /\ current_request # None
                        THEN Append(cache_samples, [timestamp |-> timestamp,
                                                    rate |-> line.hit_rate])
                        ELSE cache_samples
                  /\ UNCHANGED <<x_added, x_open, request_data, current_request>>

\* the end of the file: "Don't forget the last request"
ExtractEnd ==
    /\ UNCHANGED <<measure_vars, timing_vars,
                   delta_vars, match_vars, reqmatch_vars, parse_vars, reduce_vars, handler_vars>>
    /\ x_pc = "read"
    /\ x_pc' = "done"
    /\ request_data' = SaveRequest(request_data, current_request, cache_samples)
    /\ UNCHANGED <<x_lines, x_added, x_open, current_request, cache_samples>>

(***************************************************************************)
(* browser_use_task_handler_exact_timing.py: BrowserUseTaskHandler.        *)
(*                                                                         *)
(* Two threads run: the metrics-poller thread (_metrics_polling_loop) and  *)
(* the thread that logs, which runs emit and, inside it,                   *)
(* fetch_metrics_summary.  Each thread's code is cut at the points where   *)
(* it reads or writes state the other thread shares (the cache, the lock,  *)
(* _pending_requests) and where it waits for the backend.  The clock and   *)
(* the backend move on their own.                                          *)
(***************************************************************************)
CacheMaxAgeSeconds == 5
\* ThreadPoolExecutor(max_workers=2)
PoolWorkers == 2
AgeWithoutTime == 999
IdleTimeoutSeconds == 300

RequestIds == 1..MaxIds

\* the instants at which the threads are observed: 0, then an instant at
\* which a cache written at 0 is still fresh (4), the instant at which it
\* has just gone stale (5), then instants one idle timeout apart (305 is
\* exactly the idle timeout after 5 and more than it after 0 and 4)
TimeOf(k) == IF k = 0 THEN 0
             ELSE IF k = 1 THEN CacheMaxAgeSeconds - 1
             ELSE CacheMaxAgeSeconds + (k - 2) * IdleTimeoutSeconds

\* datetime.now(), in seconds
now == TimeOf(clock)

\* the dict _fetch_metrics_impl parses out of the backend's answer
Snapshot(counter) == [prefill_sum |-> counter]

HandlerInit ==
    /\ clock = 0
    /\ server = 0
    /\ _metrics_cache = None
    /\ _metrics_cache_time = None
    /\ _last_metrics_error = None
    /\ _pending_requests = NoPending
    /\ _request_count = 0
    /\ _current_task_id = None
    /\ _last_request_time = None
    /\ _stop_polling = FALSE
    /\ _lock = "free"
    /\ poll_pc = "loop"
    /\ poll_metrics = None
    /\ poll_saw_pending = FALSE
    /\ ev_pc = "idle"
    /\ ev_msg = None
    /\ ret = None
    /\ ret_path = "none"
    /\ fetch_calls = 0
    /\ committed = <<None, None>>
    /\ pool_running = 0
    /\ pool_discarded = 0
    /\ handler_class = "exact_timing"
    /\ timing_record = None

\* ---- the environment ----
Tick ==
    /\ UNCHANGED <<pure_vars, pool_vars, log_vars>>
    /\ clock < MaxTicks
    /\ clock' = clock + 1
    /\ UNCHANGED <<server, cache_vars, _last_metrics_error, task_vars,
                   _stop_polling, _lock, poll_vars, emit_vars, fetch_calls>>

\* nothing is logged for as long as the idle timeout: the clock goes on to
\* the instant after the last one that Tick reaches
IdleGap ==
    /\ UNCHANGED <<pure_vars, pool_vars, log_vars>>
    /\ clock = MaxTicks
    /\ clock' = clock + 1
    /\ UNCHANGED <<server, cache_vars, _last_metrics_error, task_vars,
                   _stop_polling, _lock, poll_vars, emit_vars, fetch_calls>>

\* the backend finishes a unit of work: its cumulative counters grow
ServerWork ==
    /\ UNCHANGED <<pure_vars, pool_vars, log_vars>>
    /\ server < MaxServer
    /\ server' = server + 1
    /\ UNCHANGED <<clock, cache_vars, _last_metrics_error, task_vars,
                   _stop_polling, _lock, poll_vars, emit_vars, fetch_calls>>

\* ---- _metrics_polling_loop ----
\* the first "while not self._stop_polling.is_set()"
PollLoop ==
    /\ UNCHANGED <<pure_vars, pool_vars, log_vars>>
    /\ poll_pc = "loop"
    /\ poll_pc' = IF _stop_polling THEN "done" ELSE "check"
    /\ UNCHANGED <<poll_metrics, poll_saw_pending>>
    /\ UNCHANGED <<clock, server, cache_vars, _last_metrics_error, task_vars,
                   _stop_polling, _lock, emit_vars, fetch_calls>>

\* a plausible slip: the poller fetches whether or not a request is pending
PollCheckAlways ==
    /\ UNCHANGED <<pure_vars, pool_vars, log_vars>>
    /\ poll_pc = "check"
    /\ poll_saw_pending' = (DOMAIN _pending_requests # {})
    /\ poll_pc' = "fetch"
    /\ UNCHANGED poll_metrics
    /\ UNCHANGED <<clock, server, cache_vars, _last_metrics_error, task_vars,
                   _stop_polling, _lock, emit_vars, fetch_calls>>

\* "if not self._pending_requests"
PollCheck ==
    /\ UNCHANGED <<pure_vars, pool_vars, log_vars>>
    /\ poll_pc = "check"
    /\ poll_saw_pending' = (DOMAIN _pending_requests # {})
    /\ poll_pc' = IF DOMAIN _pending_requests = {} THEN "fetch" ELSE "wait"
    /\ UNCHANGED poll_metrics
    /\ UNCHANGED <<clock, server, cache_vars, _last_metrics_error, task_vars,
                   _stop_polling, _lock, emit_vars, fetch_calls>>

\* a plausible slip: no try around the fetch, an exception ends the thread
PollFetchUncaught ==
    /\ UNCHANGED <<pure_vars, pool_vars, log_vars>>
    /\ poll_pc = "fetch"
    /\ fetch_calls < MaxFetch
    /\ fetch_calls' = fetch_calls + 1
    /\ \E ok \in BOOLEAN :
          IF ok THEN /\ poll_metrics' = Some(Snapshot(server))
                     /\ poll_pc' = "acquire"
                ELSE /\ poll_metrics' = poll_metrics
                     /\ poll_pc' = "done"
    /\ UNCHANGED poll_saw_pending
    /\ UNCHANGED <<clock, server, cache_vars, _last_metrics_error, task_vars,
                   _stop_polling, _lock, emit_vars>>

\* "metrics = self._fetch_metrics_impl(timeout=5)": the answer, or an
\* exception that the loop's except swallows
PollFetch ==
    /\ UNCHANGED <<pure_vars, pool_vars, log_vars>>
    /\ poll_pc = "fetch"
    /\ fetch_calls < MaxFetch
    /\ fetch_calls' = fetch_calls + 1
    /\ \E ok \in BOOLEAN :
          IF ok THEN /\ poll_metrics' = Some(Snapshot(server))
                     /\ poll_pc' = "acquire"
                ELSE /\ poll_metrics' = poll_metrics
                     /\ poll_pc' = "wait"
    /\ UNCHANGED poll_saw_pending
    /\ UNCHANGED <<clock, server, cache_vars, _last_metrics_error, task_vars,
                   _stop_polling, _lock, emit_vars>>

\* a plausible slip: the poller writes the cache without taking the lock
PollWriteCacheNoLock ==
    /\ UNCHANGED <<pure_vars, pool_vars, log_vars>>
    /\ poll_pc = "acquire"
    /\ _metrics_cache' = poll_metrics
    /\ poll_pc' = "w_time"
    /\ UNCHANGED <<poll_metrics, poll_saw_pending, _metrics_cache_time, committed>>
    /\ UNCHANGED <<clock, server, _last_metrics_error, task_vars,
                   _stop_polling, _lock, emit_vars, fetch_calls>>

\* "with self._lock:" and "self._metrics_cache = metrics"
PollWriteCache ==
    /\ UNCHANGED <<pure_vars, pool_vars, log_vars>>
    /\ poll_pc = "acquire"
    /\ _lock = "free"
    /\ _lock' = "poller"
    /\ _metrics_cache' = poll_metrics
    /\ poll_pc' = "w_time"
    /\ UNCHANGED <<poll_metrics, poll_saw_pending, _metrics_cache_time, committed>>
    /\ UNCHANGED <<clock, server, _last_metrics_error, task_vars,
                   _stop_polling, emit_vars, fetch_calls>>

\* "self._metrics_cache_time = datetime.now()", "self._last_metrics_error =
\* None" and the end of the with block; the local metrics is dead from here
PollWriteTime ==
    /\ UNCHANGED <<pure_vars, pool_vars, log_vars>>
    /\ poll_pc = "w_time"
    /\ _metrics_cache_time' = Some(now)
    /\ committed' = <<_metrics_cache, Some(now)>>
    /\ _last_metrics_error' = None
    /\ _lock' = "free"
    /\ poll_metrics' = None
    /\ poll_pc' = "wait"
    /\ UNCHANGED <<poll_saw_pending, _metrics_cache>>
    /\ UNCHANGED <<clock, server, task_vars, _stop_polling, emit_vars, fetch_calls>>

\* a plausible slip: after the wait the loop goes on without testing the event
PollWaitNoTest ==
    /\ UNCHANGED <<pure_vars, pool_vars, log_vars>>
    /\ poll_pc = "wait"
    /\ poll_pc' = "check"
    /\ UNCHANGED <<poll_metrics, poll_saw_pending>>
    /\ UNCHANGED <<clock, server, cache_vars, _last_metrics_error, task_vars,
                   _stop_polling, _lock, emit_vars, fetch_calls>>

\* "self._stop_polling.wait(2.0)" returns, by timeout or because the event
\* is set, and the while condition is read again
PollWait ==
    /\ UNCHANGED <<pure_vars, pool_vars, log_vars>>
    /\ poll_pc = "wait"
    /\ poll_pc' = IF _stop_polling THEN "done" ELSE "check"
    /\ UNCHANGED <<poll_metrics, poll_saw_pending>>
    /\ UNCHANGED <<clock, server, cache_vars, _last_metrics_error, task_vars,
                   _stop_polling, _lock, emit_vars, fetch_calls>>

\* ---- emit ----
MessageKinds == {"received", "completed", "other"}
\* the step of <step_info>, 0 when the message has none
StepNumbers == {0, 1, 2}

\* a plausible slip: a step 1 starts a new task even before any request
should_start_new_task_on_every_step_one(step) ==
    \/ _current_task_id = None
    \/ step = 1
    \/ /\ _last_request_time # None
       /\ now - Val(_last_request_time) > IdleTimeoutSeconds

should_start_new_task(step) ==
    \/ _current_task_id = None
    \/ (step = 1 /\ _request_count > 0)
    \/ /\ _last_request_time # None
       /\ now - Val(_last_request_time) > IdleTimeoutSeconds

\* emit up to its first call of fetch_metrics_summary: should_start_new_task,
\* start_new_task, and the branch on the message
EmitStart(kind, request_id, step) ==
    LET new_task == should_start_new_task(step)
        count0   == IF new_task THEN 0 ELSE _request_count
        pending0 == IF new_task THEN NoPending ELSE _pending_requests
    IN  /\ UNCHANGED <<pure_vars, pool_vars, log_vars>>
        /\ ev_pc = "idle"
        /\ ~_stop_polling
        /\ _current_task_id' = IF new_task THEN Some(now) ELSE _current_task_id
        /\ _last_request_time' = Some(now)
        /\ _pending_requests' = pending0
        /\ CASE kind = "received" ->
                  /\ count0 < MaxReceived
                  /\ _request_count' = count0 + 1
                  /\ ev_pc' = "summary_cache"
                  /\ ev_msg' = Some([kind |-> kind, request_id |-> request_id])
             [] kind = "completed" /\ request_id # None /\ Val(request_id) \in DOMAIN pending0 ->
                  /\ _request_count' = count0
                  /\ ev_pc' = "summary_fetch"
                  /\ ev_msg' = Some([kind |-> kind, request_id |-> request_id])
             [] OTHER ->
                  /\ _request_count' = count0
                  /\ ev_pc' = "idle"
                  /\ ev_msg' = None
        /\ UNCHANGED <<ret, ret_path>>
        /\ UNCHANGED <<clock, server, cache_vars, _last_metrics_error,
                       _stop_polling, _lock, poll_vars, fetch_calls>>

\* ---- fetch_metrics_summary, and the rest of emit after it returns ----
cache_age == IF _metrics_cache_time # None THEN now - Val(_metrics_cache_time)
                                           ELSE AgeWithoutTime

\* a plausible slip: the comparison is turned around
cache_usable_when_old == _metrics_cache # None /\ cache_age > CacheMaxAgeSeconds

\* "if self._metrics_cache is not None: ... if cache_age < 5"
cache_usable == _metrics_cache # None /\ cache_age < CacheMaxAgeSeconds

\* a plausible slip: the fallback gives the cache up once it is stale
fallback_only_if_fresh == IF cache_usable THEN _metrics_cache ELSE None

\* "if self._metrics_cache is not None: return self._metrics_cache.copy()",
\* else "return None"
fallback_value == _metrics_cache

\* fetch_metrics_summary returns value; emit goes on to its end:
\* a received request is stored in _pending_requests with the snapshot,
\* a completed one is deleted from it
EmitReturn(value, path) ==
    LET msg == Val(ev_msg)
        id  == Val(msg.request_id)
    IN  /\ ret' = value
        /\ ret_path' = path
        /\ ev_pc' = "idle"
        /\ ev_msg' = None
        /\ _pending_requests' =
              IF msg.kind = "received"
              THEN IF msg.request_id # None
                   THEN [r \in DOMAIN _pending_requests \cup {id} |->
                            IF r = id THEN [request_num    |-> _request_count,
                                            metrics_before |-> value]
                                      ELSE _pending_requests[r]]
                   ELSE _pending_requests
              ELSE [r \in DOMAIN _pending_requests \ {id} |-> _pending_requests[r]]
        /\ UNCHANGED <<_request_count, _current_task_id, _last_request_time>>

\* "if use_cache: with self._lock: ..."
SummaryCache ==
    /\ UNCHANGED <<pure_vars, pool_vars, log_vars>>
    /\ ev_pc = "summary_cache"
    /\ _lock = "free"
    /\ IF cache_usable
          THEN EmitReturn(_metrics_cache, "cache")
          ELSE /\ ev_pc' = "summary_fetch"
               /\ UNCHANGED <<ev_msg, ret, ret_path, task_vars>>
    /\ UNCHANGED <<clock, server, cache_vars, _last_metrics_error,
                   _stop_polling, _lock, poll_vars, fetch_calls>>

\* "future = self._executor.submit(self._fetch_metrics_impl, timeout)" and
\* "future.result(timeout=timeout + 2)": the answer, or an exception
\* (a timeout included)
SummaryFetch ==
    /\ UNCHANGED <<pure_vars, pool_vars, log_vars>>
    /\ ev_pc = "summary_fetch"
    /\ fetch_calls < MaxFetch
    /\ fetch_calls' = fetch_calls + 1
    /\ \E ok \in BOOLEAN :
          IF ok THEN /\ _last_metrics_error' = None
                     /\ EmitReturn(Some(Snapshot(server)), "fresh")
                ELSE /\ _last_metrics_error' = Some("exc")
                     /\ ev_pc' = "summary_fallback"
                     /\ UNCHANGED <<ev_msg, ret, ret_path, task_vars>>
    /\ UNCHANGED <<clock, server, cache_vars, _stop_polling, _lock, poll_vars>>

\* "future.result(timeout=timeout + 2)" raises TimeoutError while the pool's
\* worker is still in _fetch_metrics_impl: the caller gives the future up
SummaryFetchTimeout ==
    /\ UNCHANGED <<pure_vars, log_vars>>
    /\ ev_pc = "summary_fetch"
    /\ fetch_calls < MaxFetch
    /\ pool_running < PoolWorkers
    /\ fetch_calls' = fetch_calls + 1
    /\ pool_running' = pool_running + 1
    /\ _last_metrics_error' = Some("exc")
    /\ ev_pc' = "summary_fallback"
    /\ UNCHANGED <<ev_msg, ret, ret_path, task_vars, pool_discarded>>
    /\ UNCHANGED <<clock, server, cache_vars, _stop_polling, _lock, poll_vars>>

\* a plausible slip: a fetch that returns late still refreshes the cache
WorkerReturnWritesCache ==
    /\ UNCHANGED <<pure_vars, log_vars>>
    /\ pool_running > 0
    /\ _lock = "free"
    /\ pool_running' = pool_running - 1
    /\ pool_discarded' = pool_discarded + 1
    /\ _metrics_cache' = Some(Snapshot(server))
    /\ _metrics_cache_time' = Some(now)
    /\ committed' = <<Some(Snapshot(server)), Some(now)>>
    /\ UNCHANGED <<clock, server, _last_metrics_error, task_vars,
                   _stop_polling, _lock, poll_vars, emit_vars, fetch_calls>>

\* _fetch_metrics_impl returns or raises in the pool's worker after its
\* caller has given the future up: the outcome stays in the future, which
\* nothing reads
WorkerReturn ==
    /\ UNCHANGED <<pure_vars, log_vars>>
    /\ pool_running > 0
    /\ pool_running' = pool_running - 1
    /\ pool_discarded' = pool_discarded + 1
    /\ UNCHANGED <<clock, server, cache_vars, _last_metrics_error, task_vars,
                   _stop_polling, _lock, poll_vars, emit_vars, fetch_calls>>

\* the except branch: "with self._lock: ..."
SummaryFallback ==
    /\ UNCHANGED <<pure_vars, pool_vars, log_vars>>
    /\ ev_pc = "summary_fallback"
    /\ _lock = "free"
    /\ EmitReturn(fallback_value, "fallback")
    /\ UNCHANGED <<clock, server, cache_vars, _last_metrics_error,
                   _stop_polling, _lock, poll_vars, fetch_calls>>

\* ---- emit as one step, in each of the three handler classes ----
\* browser_use_task_handler_exact_timing.py, browser_use_task_handler_with_timing.py
\* and enhanced_task_handler_with_metrics.py
HandlerClasses == {"exact_timing", "with_timing", "enhanced"}

\* 'Received request', 'Generated response', 'Aborted request', any other
EmitKinds == {"received", "completed", "aborted", "other"}

TrackedIds == 1..MaxTracked

\* a plausible slip: a new task resets the count and keeps the pending requests
pending_kept_after_start(new_task) == _pending_requests

\* start_new_task: "self._pending_requests = {}"
pending_after_start(new_task) == IF new_task THEN NoPending ELSE _pending_requests

\* a plausible slip: the request that completes is not counted
concurrent_warning_without_self(pending) == Cardinality(DOMAIN pending) > 2

\* "if len(self._pending_requests) > 1", read before the request is deleted
concurrent_warning(pending) == Cardinality(DOMAIN pending) > 1

\* what fetch_metrics_summary(use_cache=...) returns when its on-demand
\* fetch, if it comes to one, answers (ok) or raises
fetch_metrics_summary(use_cache, ok) ==
    IF use_cache /\ cache_usable THEN _metrics_cache
    ELSE IF ok THEN Some(Snapshot(server))
    ELSE fallback_value

\* the whole of emit for one record, with the outcome ok of the fetch it
\* may make.  The classes differ in two points: only exact_timing takes
\* snapshots and derives a timing from them, and enhanced counts a
\* 'Received request' only when it has a request id.
Emit(kind, request_id, step, ok) ==
    LET new_task == should_start_new_task(step)
        count0   == IF new_task THEN 0 ELSE _request_count
        pending0 == pending_after_start(new_task)
        id       == Val(request_id)
        metrics  == handler_class = "exact_timing"
        counted  == kind = "received" /\ (handler_class # "enhanced" \/ request_id # None)
        known    == kind = "completed" /\ request_id # None /\ id \in DOMAIN pending0
        fetches  == metrics /\ (kind = "received" \/ known)
        value    == IF ~fetches THEN None
                    ELSE IF kind = "received" THEN fetch_metrics_summary(TRUE, ok)
                    ELSE fetch_metrics_summary(FALSE, ok)
        timing   == emit_timing(pending0[id].metrics_before, value)
    IN  /\ UNCHANGED <<pure_vars, pool_vars, handler_class>>
        /\ ev_pc = "idle"
        /\ ~_stop_polling
        /\ _lock = "free"
        /\ counted => count0 < MaxSession
        /\ _current_task_id' = IF new_task THEN Some(now) ELSE _current_task_id
        /\ _last_request_time' = Some(now)
        /\ _request_count' = IF counted THEN count0 + 1 ELSE count0
        /\ _pending_requests' =
              IF kind = "received" /\ request_id # None
              THEN [r \in DOMAIN pending0 \cup {id} |->
                       IF r = id THEN [request_num    |-> count0 + 1,
                                       metrics_before |-> value]
                                 ELSE pending0[r]]
              ELSE IF known
              THEN [r \in DOMAIN pending0 \ {id} |-> pending0[r]]
              ELSE pending0
        /\ timing_record' =
              IF known
              THEN Some([request_num |-> pending0[id].request_num,
                         timing      |-> timing,
                         warning     |-> timing # None /\ concurrent_warning(pending0)])
              ELSE timing_record
        /\ _last_metrics_error' =
              IF fetches /\ ~(kind = "received" /\ cache_usable)
              THEN IF ok THEN None ELSE Some("exc")
              ELSE _last_metrics_error
        /\ UNCHANGED <<clock, server, cache_vars, _stop_polling, _lock, poll_vars,
                       emit_vars, fetch_calls>>

\* ---- close ----
\* "self._stop_polling.set()"
Close ==
    /\ UNCHANGED <<pure_vars, pool_vars, log_vars>>
    /\ ev_pc = "idle"
    /\ ~_stop_polling
    /\ _stop_polling' = TRUE
    /\ UNCHANGED <<clock, server, cache_vars, _last_metrics_error, task_vars,
                   _lock, poll_vars, emit_vars, fetch_calls>>

\* "self._polling_thread.join(timeout=2)" returns: the poller has exited
\* or the two seconds are over
CloseJoin ==
    /\ UNCHANGED <<pure_vars, pool_vars, log_vars>>
    /\ ev_pc = "idle"
    /\ _stop_polling
    /\ ev_pc' = "close_shutdown"
    /\ UNCHANGED <<ev_msg, ret, ret_path>>
    /\ UNCHANGED <<clock, server, cache_vars, _last_metrics_error, task_vars,
                   _stop_polling, _lock, poll_vars, fetch_calls>>

\* "self._executor.shutdown(wait=True, cancel_futures=True)" returns, which
\* it does once no worker runs a fetch; the session is closed after it
CloseShutdown ==
    /\ UNCHANGED <<pure_vars, pool_vars, log_vars>>
    /\ ev_pc = "close_shutdown"
    /\ pool_running = 0
    /\ ev_pc' = "closed"
    /\ UNCHANGED <<ev_msg, ret, ret_path>>
    /\ UNCHANGED <<clock, server, cache_vars, _last_metrics_error, task_vars,
                   _stop_polling, _lock, poll_vars, fetch_calls>>

(***************************************************************************)
(* Specifications.                                                         *)
(***************************************************************************)
vars == <<delta_vars, measure_vars, timing_vars, match_vars, reqmatch_vars, parse_vars,
          extract_vars, reduce_vars, handler_vars>>

DeltaIdle ==
    /\ d_pc = "off" /\ d_before = None /\ d_after = None /\ d_result = None

MeasureIdle ==
    /\ b_pc = "off" /\ b_m0 = None /\ b_m1 = None /\ b_result = None

TimingIdle ==
    /\ t_pc = "off" /\ t_before = None /\ t_after = None /\ t_timing = None

MatchIdle ==
    /\ m_pc = "off" /\ stats_entries = <<>> /\ requests = <<>> /\ matched_data = <<>>

ReqMatchIdle ==
    /\ rs_pc = "off" /\ rs_requests = <<>> /\ rs_stats = <<>> /\ rs_matched = <<>>

ParseIdle ==
    /\ p_pc = "off" /\ p_lines = 0 /\ p_requests = NoPending
    /\ current_request_id = None /\ kv_cache_samples = <<>>

ExtractIdle ==
    /\ x_pc = "off" /\ x_lines = 0 /\ x_added = 0 /\ x_open = {}
    /\ request_data = <<>> /\ current_request = None /\ cache_samples = <<>>

ReduceIdle ==
    /\ g_pc = "off" /\ g_samples = <<>> /\ g_median = None /\ g_avg = None

\* every function but the handler is idle
PureIdle == DeltaIdle /\ MeasureIdle /\ TimingIdle /\ MatchIdle /\ ReqMatchIdle /\ ParseIdle /\ ExtractIdle /\ ReduceIdle

HandlerIdle ==
    /\ clock = 0 /\ server = 0
    /\ _metrics_cache = None /\ _metrics_cache_time = None /\ _last_metrics_error = None
    /\ _pending_requests = NoPending /\ _request_count = 0
    /\ _current_task_id = None /\ _last_request_time = None
    /\ _stop_polling = TRUE /\ _lock = "free"
    /\ poll_pc = "off" /\ poll_metrics = None /\ poll_saw_pending = FALSE
    /\ ev_pc = "off" /\ ev_msg = None /\ ret = None /\ ret_path = "none"
    /\ fetch_calls = 0 /\ committed = <<None, None>>
    /\ pool_running = 0 /\ pool_discarded = 0
    /\ handler_class = "exact_timing" /\ timing_record = None

\* delta_last_sample applied to every pair of parsed snapshots
DeltaNext == DeltaLastSample

InitDelta == DeltaInit /\ MatchIdle /\ ParseIdle /\ ExtractIdle /\ ReduceIdle /\ ReqMatchIdle
    /\ MeasureIdle /\ TimingIdle /\ HandlerIdle

SpecDelta == InitDelta /\ [][DeltaNext]_vars

\* measure_prefill_for_prompt applied to every pair of snapshots
MeasureNext == MeasurePrefillForPrompt

InitMeasure == MeasureInit /\ DeltaIdle /\ TimingIdle /\ MatchIdle /\ ReqMatchIdle /\ ParseIdle
    /\ ExtractIdle /\ ReduceIdle /\ HandlerIdle

SpecMeasure == InitMeasure /\ [][MeasureNext]_vars

\* emit's timing of a completed request, for every pair of snapshots
TimingNext == EmitTiming

InitTiming == TimingInit /\ DeltaIdle /\ MeasureIdle /\ MatchIdle /\ ReqMatchIdle /\ ParseIdle
    /\ ExtractIdle /\ ReduceIdle /\ HandlerIdle

SpecTiming == InitTiming /\ [][TimingNext]_vars

\* match_stats_with_requests applied to every list of stat records and
\* every dict of requests
StatMatchNext == MatchStatsWithRequests

InitStatMatch == StatMatchInit /\ DeltaIdle /\ ParseIdle /\ ExtractIdle /\ ReduceIdle /\ ReqMatchIdle
    /\ MeasureIdle /\ TimingIdle /\ HandlerIdle

SpecStatMatch == InitStatMatch /\ [][StatMatchNext]_vars

\* match_requests_to_stats applied to every list of requests and every list
\* of stat records
ReqMatchNext == MatchRequestsToStats

InitReqMatch == ReqMatchInit /\ DeltaIdle /\ MatchIdle /\ ParseIdle /\ ExtractIdle /\ ReduceIdle
    /\ MeasureIdle /\ TimingIdle /\ HandlerIdle

SpecReqMatch == InitReqMatch /\ [][ReqMatchNext]_vars

\* parse_task_log reading every task log of at most MaxLines lines
ParseNext == \E line \in TaskLogLines : ParseTaskLogLine(line)

InitParse == ParseInit /\ DeltaIdle /\ MatchIdle /\ ExtractIdle /\ ReduceIdle /\ ReqMatchIdle
    /\ MeasureIdle /\ TimingIdle /\ HandlerIdle

SpecParse == InitParse /\ [][ParseNext]_vars

\* extract_cache_hit_rates_per_request reading every log the server can
\* write in at most MaxLines lines
ExtractNext ==
    \/ \E line \in ServerLogLines : ExtractLine(line)
    \/ ExtractEnd

InitExtract == ExtractInit /\ DeltaIdle /\ MatchIdle /\ ParseIdle /\ ReduceIdle /\ ReqMatchIdle
    /\ MeasureIdle /\ TimingIdle /\ HandlerIdle

SpecExtract == InitExtract /\ [][ExtractNext]_vars

\* both reductions applied to every list of at most MaxSamples samples
ReduceNext ==
    \/ ReduceMedian
    \/ ReduceAverage

InitReduce == ReduceInit /\ DeltaIdle /\ MatchIdle /\ ParseIdle /\ ExtractIdle /\ ReqMatchIdle
    /\ MeasureIdle /\ TimingIdle /\ HandlerIdle

SpecReduce == InitReduce /\ [][ReduceNext]_vars

\* the handler: the poller thread, the emitting thread, the clock and the
\* backend, interleaved
Init == HandlerInit /\ PureIdle

Next ==
    \/ Tick
    \/ ServerWork
    \/ PollLoop
    \/ PollCheck
    \/ PollFetch
    \/ PollWriteCache
    \/ PollWriteTime
    \/ PollWait
    \/ \E kind \in MessageKinds, request_id \in Opt(RequestIds), step \in StepNumbers :
          EmitStart(kind, request_id, step)
    \/ SummaryCache
    \/ SummaryFetch
    \/ SummaryFallback
    \/ Close

Spec == Init /\ [][Next]_vars

\* the two threads and the backend within one instant of the clock, whose
\* reading plays no part in the polling loop
StopNext ==
    \/ ServerWork
    \/ PollLoop
    \/ PollCheck
    \/ PollFetch
    \/ PollWriteCache
    \/ PollWriteTime
    \/ PollWait
    \/ \E kind \in MessageKinds, request_id \in Opt(RequestIds), step \in StepNumbers :
          EmitStart(kind, request_id, step)
    \/ SummaryCache
    \/ SummaryFetch
    \/ SummaryFallback
    \/ Close

\* the poller thread is scheduled fairly: a step the poller can take (a
\* loop test, a fetch that returns or raises within its timeout, a write
\* under the lock, the return of wait(2.0)) is taken
PollerFairness ==
    /\ WF_vars(PollLoop)
    /\ WF_vars(PollCheck)
    /\ WF_vars(PollFetch)
    /\ WF_vars(PollWriteCache)
    /\ WF_vars(PollWriteTime)
    /\ WF_vars(PollWait)

SpecStop == Init /\ [][StopNext]_vars /\ PollerFairness

\* the two threads, the backend and the pool's workers within one instant
\* of the clock, with fetches that outlast their caller's patience and with
\* close() run to its end
PoolNext ==
    \/ ServerWork
    \/ PollLoop
    \/ PollCheck
    \/ PollFetch
    \/ PollWriteCache
    \/ PollWriteTime
    \/ PollWait
    \/ \E kind \in MessageKinds, request_id \in Opt(RequestIds), step \in StepNumbers :
          EmitStart(kind, request_id, step)
    \/ SummaryCache
    \/ SummaryFetch
    \/ SummaryFetchTimeout
    \/ WorkerReturn
    \/ SummaryFallback
    \/ Close
    \/ CloseJoin
    \/ CloseShutdown

SpecPool == Init /\ [][PoolNext]_vars

\* the thread that logs, running emit alone (the metrics poller is not
\* scheduled), with the clock going on over an idle timeout
SessionNext ==
    \/ Tick
    \/ IdleGap
    \/ ServerWork
    \/ \E kind \in MessageKinds, request_id \in Opt(RequestIds), step \in StepNumbers :
          EmitStart(kind, request_id, step)
    \/ SummaryCache
    \/ SummaryFetch
    \/ SummaryFallback
    \/ Close

SpecSessions == Init /\ [][SessionNext]_vars

\* a handler of any of the three classes after construction
EmitInit ==
    /\ clock = 0
    /\ server = 0
    /\ _metrics_cache = None
    /\ _metrics_cache_time = None
    /\ _last_metrics_error = None
    /\ _pending_requests = NoPending
    /\ _request_count = 0
    /\ _current_task_id = None
    /\ _last_request_time = None
    /\ _stop_polling = FALSE
    /\ _lock = "free"
    /\ poll_pc = "loop"
    /\ poll_metrics = None
    /\ poll_saw_pending = FALSE
    /\ ev_pc = "idle"
    /\ ev_msg = None
    /\ ret = None
    /\ ret_path = "none"
    /\ fetch_calls = 0
    /\ committed = <<None, None>>
    /\ pool_running = 0
    /\ pool_discarded = 0
    /\ handler_class \in HandlerClasses
    /\ timing_record = None

\* the thread that logs, with every record handled by emit in one step and
\* within one instant of the clock (the metrics poller is not scheduled)
EmitNext ==
    \E kind \in EmitKinds, request_id \in Opt(TrackedIds), step \in StepNumbers,
       ok \in BOOLEAN :
          Emit(kind, request_id, step, ok)

InitEmit == EmitInit /\ PureIdle

SpecEmit == InitEmit /\ [][EmitNext]_vars

\* the exact-timing handler with its metrics poller and the backend within
\* one instant of the clock, every record handled by emit in one step
PolledNext ==
    \/ ServerWork
    \/ PollLoop
    \/ PollCheck
    \/ PollFetch
    \/ PollWriteCache
    \/ PollWriteTime
    \/ PollWait
    \/ \E kind \in EmitKinds, request_id \in Opt(TrackedIds), step \in StepNumbers,
          ok \in BOOLEAN :
             Emit(kind, request_id, step, ok)

SpecPolled == Init /\ [][PolledNext]_vars

(***************************************************************************)
(* Claims about match_stats_with_requests (under SpecStatMatch).           *)
(***************************************************************************)
\* C1: after matching, each stat record is matched to at most one interval
\* and each interval is matched by at most one stat record (a matched
\* interval is no candidate for later stat records).
C1_IntervalMatchedAtMostOnce ==
    m_pc = "done" =>
        \A i, j \in DOMAIN matched_data :
            (i # j /\ matched_data[i].request_id # None)
                => matched_data[i].request_id # matched_data[j].request_id

(***************************************************************************)
(* Claims about delta_last_sample (under SpecDelta).                       *)
(***************************************************************************)
D_AllPresent ==
    /\ d_before # None /\ d_after # None
    /\ None \notin {d_before.prefill_sum, d_before.prefill_count,
                    d_after.prefill_sum, d_after.prefill_count}
D_CountsPresent ==
    /\ d_before # None /\ d_after # None
    /\ None \notin {d_before.prefill_count, d_after.prefill_count}
D_dc == Val(d_after.prefill_count) - Val(d_before.prefill_count)
D_ds == Val(d_after.prefill_sum) - Val(d_before.prefill_sum)
D_Returned(num, den) ==
    /\ d_result # None
    /\ SameQuotient(Val(d_result), [num |-> num, den |-> den])

\* C2: both snapshots hold sum and count, the count delta is 1 within 1e-6
\* and the sum delta is >= 0: the result is exactly the sum delta.
C2_SingleObservationIsSumDelta ==
    (d_pc = "done" /\ D_AllPresent /\ Abs(D_dc - CountUnit) < CountTolerance /\ D_ds >= 0)
        => D_Returned(D_ds, CountUnit)

\* the count delta is 1 + 5e-7, inside the tolerance and not 1
C2_Witness ==
    /\ d_pc = "done" /\ D_AllPresent
    /\ D_dc = CountUnit + 1 /\ D_ds = 2
    /\ d_result = Some([num |-> 2, den |-> CountUnit])

\* C3 as stated: whenever both snapshots hold the metric and dc > 1 the
\* result is the average (after.sum - before.sum) / dc.
C3_AverageWheneverCountAboveOne ==
    (d_pc = "done" /\ D_AllPresent /\ D_dc > CountUnit)
        => D_Returned(D_ds, D_dc)

\* C3 amended: the result is the average for dc > 1, except where dc is
\* within 1e-6 of 1 and ds >= 0, where it is the sum delta itself.
C3_AverageOutsideTolerance ==
    (d_pc = "done" /\ D_AllPresent /\ D_dc > CountUnit)
        => IF Abs(D_dc - CountUnit) < CountTolerance /\ D_ds >= 0
               THEN D_Returned(D_ds, CountUnit)
               ELSE D_Returned(D_ds, D_dc)

\* two observations between the snapshots: 2 / 2
C3_Witness ==
    /\ d_pc = "done" /\ D_AllPresent
    /\ D_dc = 2 * CountUnit /\ D_ds = 2
    /\ d_result = Some([num |-> 2, den |-> 2 * CountUnit])

\* C4: a count delta <= 0 gives None, whatever the sum delta is.
C4_NoNewObservationIsAbsent ==
    (d_pc = "done" /\ D_CountsPresent /\ D_dc <= 0) => d_result = None

\* swapped snapshots: the count went down while the sum delta is positive
C4_Witness ==
    /\ d_pc = "done" /\ D_AllPresent
    /\ D_dc < 0 /\ D_ds > 0
    /\ d_result = None

\* C5: a snapshot that lacks the sum or the count gives None.
C5_MissingMetricIsAbsent ==
    (d_pc = "done" /\ ~D_AllPresent) => d_result = None

\* only the before snapshot lacks the count; read as 0 it would make dc = 1
C5_Witness ==
    /\ d_pc = "done"
    /\ d_before.prefill_count = None /\ d_before.prefill_sum = Some(0)
    /\ d_after.prefill_count = Some(CountUnit) /\ d_after.prefill_sum = Some(2)
    /\ d_result = None

(***************************************************************************)
(* Claims about the handler's snapshot cache (under Spec).                 *)
(***************************************************************************)
\* the thread in emit takes a step out of the given place of
\* fetch_metrics_summary
EmitLeaves(pc) == ev_pc = pc /\ ev_pc' # pc

ServedFromCache ==
    /\ ev_pc' = "idle"
    /\ ret_path' = "cache"
    /\ ret' = _metrics_cache
    /\ fetch_calls' = fetch_calls

\* C6 as stated: a cached snapshot whose age is within the bound of 5
\* seconds (age <= 5) is returned at once by a get that may use the cache,
\* and no fetch is issued.
C6_CacheWithinBoundIsServed ==
    [][(EmitLeaves("summary_cache") /\ _metrics_cache # None
            /\ cache_age <= CacheMaxAgeSeconds)
        => ServedFromCache]_vars

\* C6 amended: a cached snapshot less than 5 seconds old is returned at
\* once and no fetch is issued.
C6_CacheYoungerThanBoundIsServed ==
    [][(EmitLeaves("summary_cache") /\ _metrics_cache # None
            /\ cache_age < CacheMaxAgeSeconds)
        => ServedFromCache]_vars

\* a 4 second old cache was returned; the only fetch so far is the poller's
C6_Witness ==
    /\ ret_path = "cache" /\ ret # None /\ ret = _metrics_cache
    /\ cache_age = CacheMaxAgeSeconds - 1
    /\ fetch_calls = 1

\* C7: after a failed or timed out on-demand fetch, fetch_metrics_summary
\* returns normally with the cached snapshot, however stale, and with None
\* only if no snapshot was ever cached.
C7_FailedFetchFallsBackToCache ==
    [][EmitLeaves("summary_fallback")
        => /\ ev_pc' = "idle"
           /\ ret_path' = "fallback"
           /\ ret' = _metrics_cache
           /\ (ret' = None <=> committed = <<None, None>>)]_vars

\* the fetch failed and the stale cache was returned
C7_Witness ==
    /\ ret_path = "fallback" /\ ret # None /\ ret = _metrics_cache
    /\ _last_metrics_error # None
    /\ cache_age >= CacheMaxAgeSeconds

\* C8: a successful on-demand fetch returns the new snapshot and writes it
\* to the cache (so that gets within max_age fetch no more).
C8_FreshFetchUpdatesCache ==
    [][(ev_pc = "summary_fetch" /\ ev_pc' = "idle")
        => /\ ret' = Some(Snapshot(server))
           /\ _metrics_cache' = ret'
           /\ _metrics_cache_time' = Some(now)]_vars

\* C9: the poller fetches only in an iteration whose check found no request
\* pending; an iteration that finds one pending issues no fetch and leaves
\* the cache and its time alone.
C9_PollerFetchesOnlyWhenIdle ==
    [][/\ (poll_pc # "fetch" /\ poll_pc' = "fetch") => DOMAIN _pending_requests = {}
       /\ (poll_pc = "fetch" /\ poll_pc' # "fetch") => ~poll_saw_pending
       /\ (poll_pc = "check" /\ poll_pc' # "check" /\ DOMAIN _pending_requests # {})
            => /\ poll_pc' = "wait"
               /\ UNCHANGED <<fetch_calls, _metrics_cache, _metrics_cache_time>>]_vars

\* the poller found a request pending and went to wait without fetching
C9_Witness ==
    /\ poll_pc = "wait" /\ poll_saw_pending
    /\ DOMAIN _pending_requests # {}
    /\ _metrics_cache = None

\* C10: the cache and its time are replaced together under the lock: a
\* reader at its "with self._lock" finds the pair as the poller last wrote
\* it in full, the snapshot absent exactly when the time is, and the pair
\* is half written only while the poller holds the lock.
C10_ReaderSeesWholePair ==
    /\ (ev_pc \in {"summary_cache", "summary_fallback"} /\ _lock = "free")
          => /\ <<_metrics_cache, _metrics_cache_time>> = committed
             /\ (_metrics_cache = None <=> _metrics_cache_time = None)
    /\ (<<_metrics_cache, _metrics_cache_time>> # committed) => _lock = "poller"

\* the poller has replaced an older snapshot and not yet its time, while
\* fetch_metrics_summary waits for the lock
C10_Witness ==
    /\ ev_pc = "summary_cache"
    /\ poll_pc = "w_time" /\ _lock = "poller"
    /\ committed[1] # None
    /\ _metrics_cache # committed[1]
    /\ _metrics_cache_time = committed[2]

\* C11: when a background fetch of the refresh loop fails, the loop leaves
\* the cached snapshot and its time untouched and records the failure, so
\* that _last_metrics_error is not None after the failed fetch.
C11_FailedPollRecordsError ==
    [][(poll_pc = "fetch" /\ poll_pc' = "wait")
        => /\ UNCHANGED <<_metrics_cache, _metrics_cache_time>>
           /\ _last_metrics_error' # None]_vars

(***************************************************************************)
(* Claims about the handler's sessions and pending requests (under Spec).  *)
(***************************************************************************)
\* 1 for a "Received request" record, which emit counts, 0 for any other
CountedBy(kind) == IF kind = "received" THEN 1 ELSE 0

\* C14: a completed event for a request id that has no pending interval
\* changes no tracker state (pending set, request count, session).  Stated
\* for a handler that already has a session.
C14_UnknownCompletionChangesNothing ==
    [][\A request_id \in RequestIds, step \in StepNumbers :
          ( /\ EmitStart("completed", Some(request_id), step)
            /\ _current_task_id # None
            /\ request_id \notin DOMAIN _pending_requests )
          => /\ ev_pc' = "idle"
             /\ UNCHANGED <<_pending_requests, _request_count, _current_task_id>>]_vars

\* the three conditions under which C15 lets an event start a new session
NewSessionDue(step) ==
    \/ _current_task_id = None
    \/ /\ _last_request_time # None
       /\ now - Val(_last_request_time) > IdleTimeoutSeconds
    \/ (step = 1 /\ _request_count >= 1)

\* C15: on each event emit starts a new session exactly when no session
\* exists, or the time since the last event exceeds the idle threshold, or
\* the event carries step 1 and the session has recorded a request; in
\* every other case request count and pending set are not reset.
C15_NewSessionExactlyWhenDue ==
    [][\A kind \in MessageKinds, request_id \in Opt(RequestIds), step \in StepNumbers :
          EmitStart(kind, request_id, step)
          => IF NewSessionDue(step)
                THEN /\ _current_task_id' = Some(now)
                     /\ _request_count' = CountedBy(kind)
                     /\ _pending_requests' = NoPending
                ELSE /\ _current_task_id' = _current_task_id
                     /\ _request_count' = _request_count + CountedBy(kind)
                     /\ _pending_requests' = _pending_requests]_vars

\* an earlier session handled a request to its end, and a record that is no
\* "Received request" has started the session of the last instant
C15_Witness ==
    /\ ev_pc = "idle" /\ ret_path # "none"
    /\ _current_task_id = Some(TimeOf(MaxTicks + 1))
    /\ _request_count = 0

\* C16: a request that is pending when a new session starts stays tracked:
\* an id leaves _pending_requests only when emit handles its own
\* "Generated response".
C16_PendingSurvivesSessionStart ==
    [][\A r \in DOMAIN _pending_requests :
          r \notin DOMAIN _pending_requests'
          => /\ ev_msg # None
             /\ Val(ev_msg).kind = "completed"
             /\ Val(ev_msg).request_id = Some(r)]_vars

(***************************************************************************)
(* Claims about parse_task_log (under SpecParse).                          *)
(***************************************************************************)
PendingIds == {r \in DOMAIN p_requests : p_requests[r].status = "pending"}

\* C12: once a request is completed or aborted, no later line (received,
\* completed or aborted) changes its status or its completion time or makes
\* it pending again.
C12_TerminalStatusIsFinal ==
    [][\A r \in DOMAIN p_requests :
          p_requests[r].status \in {"completed", "aborted"}
          => /\ r \in DOMAIN p_requests'
             /\ p_requests'[r].status = p_requests[r].status
             /\ p_requests'[r].completed_time = p_requests[r].completed_time]_vars

\* C13: a received line for an id that is already pending is ignored: the
\* request's record (start time, request number) stays as it is.
C13_DuplicateReceivedIsIgnored ==
    [][\A r \in ParseIds, n \in RequestNums :
          ( /\ ParseTaskLogLine([kind |-> "request", request_num |-> n, request_id |-> r])
            /\ r \in PendingIds )
          => p_requests' = p_requests]_vars

\* C17: a gauge sample that arrives while zero or more than one requests
\* are pending is attached to no request; it only joins the list of all
\* samples.
C17_SampleNeedsSolePending ==
    [][(kv_cache_samples' # kv_cache_samples /\ Cardinality(PendingIds) # 1)
        => p_requests' = p_requests]_vars

(***************************************************************************)
(* Claims about the samples of a request (under SpecExtract, SpecReduce).  *)
(***************************************************************************)
\* C18: gauge samples attach to a request only while it is pending: a
\* sample that arrives after the request has finished is never added to
\* that request's samples.
C18_NoSampleAfterCompletion ==
    [][Len(cache_samples') > Len(cache_samples)
        => /\ current_request # None
           /\ Val(current_request).id \in x_open]_vars

\* q is a median of values: at most half of the values lie below q and at
\* most half lie above it
IsMedianOf(q, values) ==
    /\ 2 * Cardinality({i \in DOMAIN values : values[i] * q.den < q.num}) <= Len(values)
    /\ 2 * Cardinality({i \in DOMAIN values : values[i] * q.den > q.num}) <= Len(values)

\* C19: the value reported for a request is the median of the values of
\* its samples, not their mean.
C19_ReportedValueIsMedian ==
    g_pc = "done"
    => /\ IsMedianOf(Val(g_median), g_samples)
       /\ IsMedianOf(Val(g_avg), g_samples)

(***************************************************************************)
(* Claims about the choice of match_stats_with_requests                    *)
(* (under SpecStatMatch).                                                  *)
(***************************************************************************)
\* the requests that are completed, have a completion time and lie within
\* the tolerance of the stat record
Candidates(stats) ==
    {i \in DOMAIN requests :
        /\ requests[i].status = "completed"
        /\ requests[i].completed_time # None
        /\ Abs(stats.timestamp - Val(requests[i].completed_time)) <= MatchToleranceSeconds}

DistanceTo(stats, i) == Abs(stats.timestamp - Val(requests[i].completed_time))

\* C20: the request selected for a stat record is a candidate within the
\* tolerance whose completion time is nearest to the record's timestamp
\* among all candidates, and a record that has a candidate is matched.
C20_NearestCandidateIsSelected ==
    m_pc = "done" =>
        \A k \in DOMAIN matched_data :
            LET stats == stats_entries[k]
                entry == matched_data[k]
            IN  /\ Candidates(stats) # {} => entry.request_id # None
                /\ entry.request_id # None
                   => /\ Val(entry.request_id) \in Candidates(stats)
                      /\ entry.time_diff = Some(DistanceTo(stats, Val(entry.request_id)))
                      /\ \A j \in Candidates(stats) :
                            DistanceTo(stats, Val(entry.request_id)) <= DistanceTo(stats, j)

\* a stat record has two candidates and the nearer one, which comes second
\* in the dict, is selected
C20_Witness ==
    /\ m_pc = "done"
    /\ \E k \in DOMAIN matched_data :
          /\ Candidates(stats_entries[k]) = {1, 2}
          /\ DistanceTo(stats_entries[k], 2) < DistanceTo(stats_entries[k], 1)
          /\ matched_data[k].request_id = Some(2)

\* C21: every stat record given to match_stats_with_requests yields exactly
\* one output entry, in input order; a stat record with no candidate within
\* the tolerance is output as unmatched (no request, no request id, no time
\* difference) and is not dropped.
C21_EveryStatRecordIsOutput ==
    m_pc = "done" =>
        /\ Len(matched_data) = Len(stats_entries)
        /\ \A k \in DOMAIN stats_entries :
              /\ matched_data[k].stats = stats_entries[k]
              /\ Candidates(stats_entries[k]) = {}
                    => /\ matched_data[k].request = None
                       /\ matched_data[k].request_id = None
                       /\ matched_data[k].time_diff = None

\* the first of two stat records lies 6 s from the only completed request
\* and is output unmatched, before the second, which is matched
C21_Witness ==
    /\ m_pc = "done"
    /\ Len(stats_entries) = 2 /\ Len(matched_data) = 2
    /\ Len(requests) >= 1
    /\ requests[1].status = "completed" /\ requests[1].completed_time # None
    /\ Candidates(stats_entries[1]) = {}
    /\ matched_data[1].stats = stats_entries[1]
    /\ matched_data[1].request_id = None
    /\ matched_data[2].request_id = Some(1)

(***************************************************************************)
(* Claims about match_requests_to_stats (under SpecReqMatch).              *)
(***************************************************************************)
\* C22: a request that has no stat record within its window, and a stat
\* record that no request claims, are still found in the result of
\* match_requests_to_stats: every request and every stat record of the
\* input has an entry.
C22_UnmatchedAreReported ==
    rs_pc = "done" =>
        /\ \A k \in DOMAIN rs_requests :
              \E e \in DOMAIN rs_matched : rs_matched[e].request_id = k
        /\ \A i \in DOMAIN rs_stats :
              \E e \in DOMAIN rs_matched :
                 rs_matched[e].completion_timestamp = rs_stats[i].timestamp

\* the stat record lies in the window of the request
InWindow(req, stat) ==
    /\ req.start_time <= stat.timestamp
    /\ stat.timestamp <= req.end_time + TimeWindowSeconds

\* C23: a single stat record that is equally distant from the ends of two
\* candidate requests (t = 115 s, ends at 100 s and 130 s, window 30 s) is
\* matched to the request that ends later, and to that request only.
C23_TieGoesToLaterInterval ==
    (rs_pc = "done" /\ Len(rs_stats) = 1) =>
        \A a, b \in DOMAIN rs_requests :
            ( /\ InWindow(rs_requests[a], rs_stats[1])
              /\ InWindow(rs_requests[b], rs_stats[1])
              /\ rs_requests[a].end_time < rs_requests[b].end_time
              /\ Abs(rs_stats[1].timestamp - rs_requests[a].end_time)
                    = Abs(rs_stats[1].timestamp - rs_requests[b].end_time) )
            => /\ \E e \in DOMAIN rs_matched : rs_matched[e].request_id = b
               /\ \A e \in DOMAIN rs_matched : rs_matched[e].request_id # a

(***************************************************************************)
(* Claims about the time difference of match_stats_with_requests           *)
(* (under SpecStatMatch).                                                  *)
(***************************************************************************)
\* C24: the time_diff of a matched entry is the absolute difference between
\* the stat record's timestamp and the completion time of the request it
\* was matched to; it is None exactly when the entry is unmatched.
C24_TimeDiffIsWinningDistance ==
    m_pc = "done" =>
        \A k \in DOMAIN matched_data :
            LET entry == matched_data[k]
            IN  /\ entry.time_diff = None <=> entry.request_id = None
                /\ entry.request_id # None
                   => LET completed_time == Val(requests[Val(entry.request_id)].completed_time)
                      IN  entry.time_diff
                             = Some(Abs(stats_entries[k].timestamp - completed_time))

\* one stat record is matched 4 s before the request's completion, another
\* is unmatched and has no time difference
C24_Witness ==
    /\ m_pc = "done"
    /\ \E k, u \in DOMAIN matched_data :
          /\ matched_data[k].request_id # None
          /\ matched_data[k].time_diff = Some(4)
          /\ stats_entries[k].timestamp
                < Val(requests[Val(matched_data[k].request_id)].completed_time)
          /\ matched_data[u].request_id = None
          /\ matched_data[u].time_diff = None

(***************************************************************************)
(* Claims about the timing emit derives for a completed request            *)
(* (under SpecTiming).                                                     *)
(***************************************************************************)
\* the snapshot holds the metric's cumulative sum
HasCounter(metrics, metric) ==
    metrics # None /\ SumKey(metric) \in DOMAIN Val(metrics)

\* the timing written for the metric, None when none is written
TimingOf(metric) == IF t_timing = None THEN None ELSE Val(t_timing)[metric]

\* C25: a metric (prefill, decode, TTFT) that is missing from the before or
\* the after snapshot of a completed request is reported as absent, never
\* as a number computed with the missing counter read as zero.
C25_MissingCounterNotReadAsZero ==
    t_pc = "done" =>
        \A metric \in TimedMetrics :
            (~HasCounter(t_before, metric) \/ ~HasCounter(t_after, metric))
                => TimingOf(metric) = None

\* C26: when the after snapshot holds a smaller cumulative value than the
\* before snapshot (a negative delta), the metric is treated as absent and
\* the negative difference is not reported as the request's timing.
C26_NegativeDeltaIsAbsent ==
    t_pc = "done" =>
        \A metric \in TimedMetrics :
            ( /\ HasCounter(t_before, metric) /\ HasCounter(t_after, metric)
              /\ Val(t_after)[SumKey(metric)] < Val(t_before)[SumKey(metric)] )
                => TimingOf(metric) = None

(***************************************************************************)
(* Claims about measure_prefill_for_prompt (under SpecMeasure).            *)
(***************************************************************************)
\* the delta rule gives None for the metric
AbsentFor(metric) ==
    delta_last_sample(b_m0, b_m1, KeySum(metric), KeyCount(metric)) = None

\* C27: the delta rule is applied to each metric on its own: when the
\* result for one metric is absent, the record is still returned with all
\* four metrics, and the value of every other metric is the one the delta
\* rule derives from that metric's own sum and count.
C27_AbsentMetricLeavesOthersAlone ==
    b_pc = "done" =>
        /\ b_result # None
        /\ DOMAIN Val(b_result) = Metrics
        /\ \A absent \in Metrics :
              AbsentFor(absent) =>
                 \A other \in Metrics \ {absent} :
                    Val(b_result)[other]
                       = OrZero(delta_last_sample(b_m0, b_m1, KeySum(other), KeyCount(other)))

\* the text after the request has no prefill count; decode and the time to
\* first token are still derived from their own counters
C27_Witness ==
    /\ b_pc = "done"
    /\ b_m1["prefill_count"] = None
    /\ AbsentFor("prefill")
    /\ Val(b_result)["prefill"] = Zero
    /\ Val(b_result)["decode"] = [num |-> MaxSum, den |-> CountUnit]
    /\ Val(b_result)["time_to_first_token"] = [num |-> MaxSum, den |-> CountUnit]
    /\ AbsentFor("time_per_output_token")

(***************************************************************************)
(* Claims about the end of the handler (under SpecStop).                   *)
(***************************************************************************)
\* the bound on the number of fetches does not hold the poller up
FetchCanReturn == poll_pc \in {"check", "fetch"} => fetch_calls < MaxFetch

\* C28: once close() has set _stop_polling the polling loop exits, whether
\* the signal arrives while the loop waits between polls or while it
\* fetches; the loop test that finds the signal set starts no new
\* iteration, and a loop that has exited stays so.
C28_LoopExitsAfterStop ==
    /\ (_stop_polling /\ FetchCanReturn) ~> (poll_pc = "done")
    /\ [][/\ (_stop_polling /\ poll_pc \in {"loop", "wait"} /\ poll_pc' # poll_pc)
                => poll_pc' = "done"
          /\ poll_pc = "done" => poll_pc' = "done"]_vars

\* the signal is set while the poller is in a fetch
C28_Witness ==
    /\ _stop_polling
    /\ poll_pc = "fetch" /\ fetch_calls < MaxFetch

(***************************************************************************)
(* Claims about the pool's fetches and close() (under SpecPool).           *)
(***************************************************************************)
\* C29: a fetch that is in flight at shutdown is abandoned, not awaited:
\* close() can go on at each of its waits, the join of the poller and the
\* shutdown of the pool, while a fetch is still running.
C29_CloseDoesNotAwaitFetch ==
    /\ (_stop_polling /\ ev_pc = "idle") => ENABLED CloseJoin
    /\ ev_pc = "close_shutdown" => ENABLED CloseShutdown

\* C30: when an on-demand fetch exceeds its time bound the caller goes on
\* to the fallback and returns the cached snapshot as it is; the abandoned
\* fetch, when it returns later, changes neither the cache nor what any
\* caller has or will have returned, nor a pending request's snapshot.
C30_LateResultIsDiscarded ==
    [][/\ (ev_pc = "summary_fetch" /\ pool_running' > pool_running)
            => /\ ev_pc' = "summary_fallback"
               /\ UNCHANGED <<cache_vars, ret, ret_path, task_vars>>
       /\ (ev_pc = "summary_fallback" /\ ev_pc' = "idle" /\ pool_running > 0)
            => /\ ret' = _metrics_cache
               /\ UNCHANGED cache_vars
       /\ pool_discarded' > pool_discarded
            => UNCHANGED <<cache_vars, _last_metrics_error, task_vars, emit_vars>>]_vars

\* a fetch timed out, its caller returned the cached snapshot, and the
\* fetch has returned since without a trace in the cache
C30_Witness ==
    /\ pool_discarded = 1 /\ pool_running = 0
    /\ ev_pc = "idle" /\ ret_path = "fallback"
    /\ ret # None /\ ret = _metrics_cache
    /\ <<_metrics_cache, _metrics_cache_time>> = committed
    /\ server > Val(_metrics_cache).prefill_sum

(***************************************************************************)
(* Claims about the polling loop's survival (under SpecStop).              *)
(***************************************************************************)
\* C31: no fetch failure stops the polling loop: a fetch ends in the cache
\* write or, when it raises, in the wait; the loop ends only at a loop test
\* that finds the stop signal set; and from the wait the loop goes on to
\* another poll unless the stop signal is set.
C31_FailedFetchKeepsLoopRunning ==
    /\ [][/\ (poll_pc = "fetch" /\ poll_pc' # "fetch") => poll_pc' \in {"acquire", "wait"}
          /\ (poll_pc # "done" /\ poll_pc' = "done")
                => (_stop_polling /\ poll_pc \in {"loop", "wait"})]_vars
    /\ (poll_pc = "wait") ~> (poll_pc = "check" \/ _stop_polling)

\* the poller's first fetch has raised (nothing is cached, the thread that
\* logs has fetched nothing) and the loop is in its next iteration
C31_Witness ==
    /\ poll_pc = "check" /\ ~_stop_polling
    /\ fetch_calls = 1
    /\ _metrics_cache = None
    /\ ev_pc = "idle" /\ ret_path = "none"
    /\ DOMAIN _pending_requests = {}

(***************************************************************************)
(* Claims about the candidates of match_stats_with_requests                *)
(* (under SpecStatMatch).                                                  *)
(***************************************************************************)
\* C32: only requests whose status is completed are candidates: a request
\* that is pending or aborted is matched to no stat record, whatever its
\* timestamps.
C32_OnlyCompletedAreMatched ==
    m_pc = "done" =>
        \A k \in DOMAIN matched_data :
            matched_data[k].request_id # None
                => /\ requests[Val(matched_data[k].request_id)].status = "completed"
                   /\ Val(matched_data[k].request).status = "completed"

\* an aborted request carries the very time of the stat record, a pending
\* one sits next to it, and the record is unmatched
C32_Witness ==
    /\ m_pc = "done"
    /\ Len(requests) = 2 /\ Len(stats_entries) = 1
    /\ requests[1].status = "aborted"
    /\ requests[1].completed_time = Some(stats_entries[1].timestamp)
    /\ requests[2].status = "pending"
    /\ matched_data[1].request_id = None

(***************************************************************************)
(* Claims about the snapshots behind a derived timing (under SpecPolled).  *)
(***************************************************************************)
\* C33: for every completed request whose timing is derived, the after
\* snapshot was captured no earlier than the before snapshot, whichever way
\* each of the two came about (cache hit, on-demand fetch, fallback to a
\* stale cache): with the backend's counter growing, the delta written is
\* never negative.
C33_AfterSnapshotNotOlder ==
    (timing_record # None /\ Val(timing_record).timing # None)
        => Val(Val(Val(timing_record).timing)["prefill"]) >= 0

(***************************************************************************)
(* Claims about the requests emit keeps pending (under SpecEmit).          *)
(***************************************************************************)
\* C34: a received request leaves the pending set once emit has handled
\* its 'Generated response' or its 'Aborted request' record: in no state
\* can emit handle such a record of a request and leave the request pending.
C34_EndEventRemovesPending ==
    \A kind \in {"completed", "aborted"}, id \in TrackedIds, step \in StepNumbers,
       ok \in BOOLEAN :
          ~ENABLED (Emit(kind, Some(id), step, ok) /\ id \in DOMAIN _pending_requests')

(***************************************************************************)
(* Claims about the poller and pending requests (under Spec).              *)
(***************************************************************************)
\* C35: under every interleaving of the poller with the thread that logs,
\* the poller neither fetches nor replaces the cache while a request is
\* pending.
C35_NoPollerFetchWhilePending ==
    [][((poll_pc = "fetch" /\ poll_pc' # "fetch")
           \/ (poll_pc = "acquire" /\ poll_pc' = "w_time"))
          => DOMAIN _pending_requests = {}]_vars

(***************************************************************************)
(* Claims about the poller after close (under SpecPool).                   *)
(***************************************************************************)
\* C36: once close() has returned, the poller thread has terminated: it
\* runs no fetch and writes the cache and its time no more.
C36_PollerQuietWhenClosed ==
    [][ev_pc = "closed"
          => /\ ~(poll_pc = "fetch" /\ poll_pc' # "fetch")
             /\ _metrics_cache' = _metrics_cache
             /\ _metrics_cache_time' = _metrics_cache_time]_vars

(***************************************************************************)
(* Claims about the session's count and pending requests (under SpecEmit). *)
(***************************************************************************)
\* the pending requests are no more than the session's request count, and
\* their request numbers are distinct numbers from 1 to that count
PendingWithinCount ==
    /\ Cardinality(DOMAIN _pending_requests) <= _request_count
    /\ \A r \in DOMAIN _pending_requests :
          _pending_requests[r].request_num \in 1.._request_count
    /\ \A r1, r2 \in DOMAIN _pending_requests :
          r1 # r2 => _pending_requests[r1].request_num # _pending_requests[r2].request_num

\* C37: in every reachable state of each of the three handlers the pending
\* requests are at most the session's request count and carry pairwise
\* distinct request numbers between 1 and that count; an emit that starts a
\* new task leaves nothing of the old session: the count and the pending
\* set are those of the record it handles itself, counted from 0 and from
\* the empty set.
C37_PendingWithinSessionCount ==
    /\ []PendingWithinCount
    /\ [][\A kind \in EmitKinds, request_id \in Opt(TrackedIds), step \in StepNumbers,
             ok \in BOOLEAN :
                (Emit(kind, request_id, step, ok) /\ should_start_new_task(step))
                   => /\ _request_count' \in {0, 1}
                      /\ _request_count' = 0 => kind # "received" \/ request_id = None
                      /\ DOMAIN _pending_requests' \subseteq
                            (IF kind = "received" /\ request_id # None
                             THEN {Val(request_id)} ELSE {})
                      /\ Cardinality(DOMAIN _pending_requests') <= _request_count']_vars

\* a second session of the enhanced handler with two requests pending,
\* numbered 1 and 2
C37_Witness ==
    /\ handler_class = "enhanced"
    /\ _request_count = 2
    /\ DOMAIN _pending_requests = {1, 2}
    /\ _pending_requests[1].request_num = 2
    /\ _pending_requests[2].request_num = 1

(***************************************************************************)
(* Claims about the time difference of a match (under SpecReqMatch).       *)
(***************************************************************************)
\* C38: every match has a recorded time difference of at most the
\* matcher's tolerance; for match_requests_to_stats that is
\* time_window_seconds.
C38_TimeDiffWithinWindow ==
    rs_pc = "done" =>
        \A k \in DOMAIN rs_matched :
            rs_matched[k].time_diff_seconds <= TimeWindowSeconds

====
